---- MODULE Spec2Model ----
(***************************************************************************)
(* pixel-craft: the image optimization pipeline (image_processor.py) and   *)
(* the HTTP handlers that drive it (routes.py), with the configuration of  *)
(* config.py and the upload validation of validator.py.                    *)
(*                                                                         *)
(* Three specifications share the state:                                   *)
(*   Spec         one behaviour is one request: Init draws the request     *)
(*                (the form, the uploaded or stored image, the faults of   *)
(*                the environment) and a handler action runs it to its     *)
(*                response;                                                *)
(*   SessionSpec  a client's requests one after another against the        *)
(*                working directory: /upload, /reoptimize, /download,      *)
(*                /cleanup-all (routes.py);                                *)
(*   SweeperSpec  the FileCleanup object of cleanup.py: the sweep of       *)
(*                init_app, the sweeper thread, start and stop.            *)
(***************************************************************************)
EXTENDS Integers, Sequences, FiniteSets, Bags, TLC

VARIABLES pc, req, files, options, result, enc, response,
          clock, issued, origin, quoted, closing,
          folder, cleanup_thread, stop_event, threads, caller, sweeps

\* The state of a request and of the working directory.
request_vars == <<pc, req, files, options, result, enc, response>>
\* The state of a session: the clock get_safe_filename reads (milliseconds),
\* the safe names given to the uploads so far, the safe name given to the
\* latest upload that was served, the safe name the client holds from the
\* latest answer of /upload or /reoptimize, the callbacks registered with
\* call_on_close on responses that are not closed yet.
session_vars == <<clock, issued, origin, quoted, closing>>
\* The state of the FileCleanup object: the upload folder as the sweep sees
\* it, self._cleanup_thread, self._stop_event, the threads started, the
\* thread calling start and stop, the sweeps begun since the stop signal.
sweeper_vars == <<folder, cleanup_thread, stop_event, threads, caller, sweeps>>

vars == <<pc, req, files, options, result, enc, response,
          clock, issued, origin, quoted, closing,
          folder, cleanup_thread, stop_event, threads, caller, sweeps>>

(***************************************************************************)
(* Bounds of the model.                                                    *)
(***************************************************************************)
\* File sizes, in bytes, range over 0..MaxBytes.
MaxBytes == 33

(***************************************************************************)
(* config.py                                                               *)
(***************************************************************************)
MAX_CONTENT_LENGTH == 26214400
MIN_QUALITY == 1
MAX_QUALITY == 95
DEFAULT_QUALITY == 85
MIN_RESIZE_PERCENT == 10
MAX_RESIZE_PERCENT == 200
DEFAULT_RESIZE_PERCENT == 100
SHARPEN_DEFAULT == 0
MIN_SHARPEN == 0
MAX_SHARPEN == 100

ALLOWED_EXTENSIONS == {"jpg", "jpeg", "png", "webp"}
ALLOWED_MIME_TYPES == {"image/jpeg", "image/png", "image/webp"}
REJECTED_EXTENSIONS == {"svg", "gif"}
STRIP_METADATA_DEFAULT == TRUE
AUTO_ORIENT_DEFAULT == TRUE
OUTPUT_FORMATS == {"same", "jpeg", "png", "webp"}
OUTPUT_FORMAT_DEFAULT == "same"
DEFAULT_PRESET == "balanced"
CLEANUP_AGE_SECONDS == 3600
CLEANUP_INTERVAL_SECONDS == 300
DELETE_AFTER_RESPONSE == TRUE

PRESETS ==
  [p \in {"speed", "balanced", "max_quality"} |->
     CASE p = "speed" ->
            [jpeg_quality |-> 90, webp_quality |-> 90,
             png_compress_level |-> 6, webp_method |-> 4]
       [] p = "balanced" ->
            [jpeg_quality |-> 85, webp_quality |-> 85,
             png_compress_level |-> 9, webp_method |-> 6]
       [] p = "max_quality" ->
            [jpeg_quality |-> 95, webp_quality |-> 95,
             png_compress_level |-> 9, webp_method |-> 6]]

(***************************************************************************)
(* Values standing for Python's None and for things that did not happen.   *)
(***************************************************************************)
\* An optional number is a sequence: None is empty, a value v is <<v>>.
None == <<>>
Some(v) == <<v>>
NoEnc == [codec |-> "none"]
NoResult == [ran |-> FALSE]
NoResponse == [status |-> 0]
NoOptions == [passed |-> FALSE]

\* dict.get(key, default): a dict is a function on the keys it holds.
Get(d, key, default) == IF key \in DOMAIN d THEN d[key] ELSE default

\* The dict with no keys (request.form of an empty form, options = {}).
EmptyDict == [k \in {} |-> None]

Min(a, b) == IF a < b THEN a ELSE b
Max(a, b) == IF a > b THEN a ELSE b

\* Python's int(x) of a non-negative quotient x = n / d, and floor in general.
FloorDiv(n, d) == n \div d

(***************************************************************************)
(* The codec library as the pipeline uses it.  A stored image file is      *)
(*   [format, mode, width, height, exif, size]                             *)
(* with exif "none" (no EXIF block), "plain" (a block whose orientation is *)
(* the identity) or "rot90" (a block whose orientation tag swaps the       *)
(* axes).  A decoded image is [mode, width, height, info_exif, resized,    *)
(* flattened, sharpened]: info_exif is img.info['exif'], resized says      *)
(* img.resize ran, flattened says the pixels were pasted onto the white    *)
(* background, sharpened names the filter applied.                         *)
(***************************************************************************)
AlphaModes == {"RGBA", "LA", "P"}

\* Image.open(input_path)
ImageOpen(file) ==
  [mode |-> file.mode, width |-> file.width, height |-> file.height,
   info_exif |-> file.exif, resized |-> FALSE, flattened |-> FALSE,
   sharpened |-> "no"]

\* ImageOps.exif_transpose(img): an orientation that swaps the axes turns
\* the pixels and drops the orientation tag from the copy's info.
ExifTranspose(img) ==
  IF img.info_exif = "rot90"
    THEN [img EXCEPT !.width = img.height, !.height = img.width,
                     !.info_exif = "plain"]
    ELSE img

\* img.info = {}
ClearInfo(img) == [img EXCEPT !.info_exif = "none"]

\* img.resize((w, h), Image.LANCZOS) raises for an empty target.
ResizeRaises(w, h) == w < 1 \/ h < 1

Resize(img, w, h) ==
  [img EXCEPT !.width = w, !.height = h, !.resized = TRUE]

(***************************************************************************)
(* Python's str, for texts over the characters U+0001 to U+00FF.  A text   *)
(* is a string; its characters are its substrings of length 1, positions   *)
(* count from 1.                                                           *)
(***************************************************************************)
UpperCaseLetters == "ABCDEFGHIJKLMNOPQRSTUVWXYZ"
LowerCaseLetters == "abcdefghijklmnopqrstuvwxyz"
DecimalDigits == "0123456789"
\* The ASCII characters str.split() takes for blanks: the space, the tab,
\* the line feed, the carriage return, the form feed, and after them the
\* vertical tab U+000B and the separators U+001C, U+001D, U+001E, U+001F.
Whitespace == " \t\n\r\f"

\* The letters above U+007F that str.lower() and str.upper() exchange.
Latin1UpperCase == "ÀÁÂÃÄÅÆÇÈÉÊËÌÍÎÏÐÑÒÓÔÕÖØÙÚÛÜÝÞ"
Latin1LowerCase == "àáâãäåæçèéêëìíîïðñòóôõöøùúûüýþ"

\* unicodedata.normalize("NFKD", c).encode("ascii", "ignore") of the
\* characters above U+007F: the character FoldedFrom has at a position
\* becomes the one FoldedTo has there (the first is the no-break space),
\* the three fractions become their two digits, and the characters of
\* Unfolded (the controls U+0080 to U+009F first) have no ASCII part.
FoldedFrom == " ¨ª¯²³´¸¹ºÀÁÂÃÄÅÇÈÉÊËÌÍÎÏÑÒÓÔÕÖÙÚÛÜÝàáâãäåçèéêëìíîïñòóôõöùúûüýÿ"
FoldedTo == "  a 23  1oAAAAAACEEEEIIIINOOOOOUUUUYaaaaaaceeeeiiiinooooouuuuyy"
Unfolded == "¡¢£¤¥¦§©«¬­®°±µ¶·»¿ÆÐ×ØÞßæð÷øþ"

CharAt(s, i) == SubSeq(s, i, i)

\* s.find(c) and s.rfind(c) for a character c: its first and its last
\* position, 0 when s has none.
RECURSIVE FindFrom(_, _, _)
FindFrom(s, c, i) ==
  IF i > Len(s) THEN 0
  ELSE IF CharAt(s, i) = c THEN i ELSE FindFrom(s, c, i + 1)

Find(s, c) == FindFrom(s, c, 1)

RECURSIVE RFindFrom(_, _, _)
RFindFrom(s, c, i) ==
  IF i < 1 THEN 0
  ELSE IF CharAt(s, i) = c THEN i ELSE RFindFrom(s, c, i - 1)

RFind(s, c) == RFindFrom(s, c, Len(s))

\* c in s
Contains(s, c) == Find(s, c) # 0

\* The characters of s, as a set.
Characters(s) == {CharAt(s, i) : i \in 1..Len(s)}

WhitespaceSet == Characters(Whitespace)
UpperCase == UpperCaseLetters \o Latin1UpperCase
LowerCase == LowerCaseLetters \o Latin1LowerCase
UpperCaseSet == Characters(UpperCase)
LowerCaseSet == Characters(LowerCase)
FoldedSet == Characters(FoldedFrom)
UnfoldedSet == Characters(Unfolded)

LowerChar(c) ==
  IF c \in UpperCaseSet THEN CharAt(LowerCase, Find(UpperCase, c)) ELSE c

\* The sharp s becomes two letters and the micro sign the Greek capital mu;
\* the upper-case form of U+00FF is U+0178, which no string of the module
\* can hold: Upper is defined on the texts without U+00FF.
UpperChar(c) ==
  IF c \in LowerCaseSet THEN CharAt(UpperCase, Find(LowerCase, c))
  ELSE IF c = "ß" THEN "SS"
  ELSE IF c = "µ" THEN "Μ"
  ELSE c

\* The NFKD form of a character, less what is not ASCII.
AsciiFoldChar(c) ==
  IF c \in FoldedSet THEN CharAt(FoldedTo, Find(FoldedFrom, c))
  ELSE IF c = "¼" THEN "14"
  ELSE IF c = "½" THEN "12"
  ELSE IF c = "¾" THEN "34"
  ELSE IF c \in UnfoldedSet THEN ""
  ELSE c

\* unicodedata.normalize("NFKD", s).encode("ascii", "ignore").decode("ascii")
RECURSIVE AsciiFold(_)
AsciiFold(s) ==
  IF s = "" THEN "" ELSE AsciiFoldChar(Head(s)) \o AsciiFold(Tail(s))

\* str.upper() and str.lower()
RECURSIVE Upper(_)
Upper(s) == IF s = "" THEN "" ELSE UpperChar(Head(s)) \o Upper(Tail(s))

RECURSIVE Lower(_)
Lower(s) == IF s = "" THEN "" ELSE LowerChar(Head(s)) \o Lower(Tail(s))

\* str(n) of an integer n >= 0
RECURSIVE Str(_)
Str(n) ==
  IF n < 10 THEN CharAt(DecimalDigits, n + 1)
  ELSE Str(n \div 10) \o CharAt(DecimalDigits, (n % 10) + 1)

\* s.rsplit('.', 1)[1] of a text that holds a dot: what follows its last dot.
AfterLastDot(s) == SubSeq(s, RFind(s, ".") + 1, Len(s))

\* s.replace(old, new) for characters old and new.
RECURSIVE Replace(_, _, _)
Replace(s, old, new) ==
  IF s = "" THEN ""
  ELSE (IF Head(s) = old THEN new ELSE Head(s)) \o Replace(Tail(s), old, new)

\* "_".join(s.split()): started says a word has begun, gap that blanks
\* followed it.
RECURSIVE JoinSplit(_, _, _)
JoinSplit(s, started, gap) ==
  IF s = "" THEN ""
  ELSE IF Head(s) \in WhitespaceSet
         THEN JoinSplit(Tail(s), started, started)
         ELSE (IF gap THEN "_" ELSE "") \o Head(s)
                \o JoinSplit(Tail(s), TRUE, FALSE)

\* re.sub of the characters outside the set keep by nothing.
RECURSIVE Keep(_, _)
Keep(s, keep) ==
  IF s = "" THEN ""
  ELSE (IF Head(s) \in keep THEN Head(s) ELSE "") \o Keep(Tail(s), keep)

\* s.lstrip(chars), s.rstrip(chars), s.strip(chars) for a set of characters
RECURSIVE LStrip(_, _)
LStrip(s, chars) ==
  IF s # "" /\ Head(s) \in chars THEN LStrip(Tail(s), chars) ELSE s

RECURSIVE RStrip(_, _)
RStrip(s, chars) ==
  IF s # "" /\ CharAt(s, Len(s)) \in chars
    THEN RStrip(SubSeq(s, 1, Len(s) - 1), chars)
    ELSE s

Strip(s, chars) == RStrip(LStrip(s, chars), chars)

\* os.path.splitext(p) as <<root, ext>>: the extension starts at the last
\* dot of the last path component, unless only dots come before it there.
SplitExt(p) ==
  LET sepIndex == RFind(p, "/")
      dotIndex == RFind(p, ".")
  IN IF /\ dotIndex > sepIndex
        /\ \E i \in (sepIndex + 1)..(dotIndex - 1) : CharAt(p, i) # "."
       THEN <<SubSeq(p, 1, dotIndex - 1), SubSeq(p, dotIndex, Len(p))>>
       ELSE <<p, "">>

\* werkzeug.utils.secure_filename on a POSIX host: the name is folded to
\* ASCII, path separators become blanks, the words are joined with "_", the
\* characters outside [A-Za-z0-9_.-] are dropped, dots and underscores are
\* stripped from the two ends.
SafeCharacters ==
  Characters(UpperCaseLetters \o LowerCaseLetters \o DecimalDigits \o "_.-")

SecureFilename(filename) ==
  Strip(Keep(JoinSplit(Replace(AsciiFold(filename), "/", " "), FALSE, FALSE),
             SafeCharacters),
        {".", "_"})

(***************************************************************************)
(* image_processor.py                                                      *)
(***************************************************************************)
\* ImageOptimizer._apply_sharpening raises when UnsharpMask and the SHARPEN
\* fallback both raise: neither filter accepts a palette image.
SharpeningRaises(img, sharpen_amount, fault) ==
  /\ sharpen_amount > 0
  /\ (img.mode = "P" \/ fault = "filter")

ApplySharpening(img, sharpen_amount, fault) ==
  IF sharpen_amount <= 0
    THEN img
    ELSE IF fault = "unsharp"
           THEN [img EXCEPT !.sharpened = "basic"]
           ELSE [img EXCEPT !.sharpened = "unsharp"]

\* Lines 95-102: paste onto a new white RGB image (a palette image is first
\* converted to RGBA); the new image has an empty info.
FlattenOnWhite(img) ==
  [img EXCEPT !.mode = "RGB", !.flattened = TRUE, !.info_exif = "none"]

\* What img.save received: the codec, the image as encoded, the keywords.
Encoded(codec, img, output_path, quality, level, method, save_kwargs) ==
  [codec |-> codec, mode |-> img.mode, width |-> img.width,
   height |-> img.height, resized |-> img.resized,
   flattened |-> img.flattened,
   sharpened |-> img.sharpened, info_exif |-> img.info_exif,
   path |-> output_path, quality |-> quality, compress_level |-> level,
   method |-> method, exif |-> Get(save_kwargs, "exif", "none"),
   has_exif |-> "exif" \in DOMAIN save_kwargs]

OptimizeJpeg(img, output_path, quality, preset_settings, save_kwargs) ==
  LET jpeg_quality == Get(preset_settings, "jpeg_quality", quality)
      rgb == IF img.mode # "RGB" THEN [img EXCEPT !.mode = "RGB"] ELSE img
  IN Encoded("JPEG", rgb, output_path, Some(jpeg_quality), None, None,
             save_kwargs)

OptimizePng(img, output_path, preset_settings, save_kwargs) ==
  LET compress_level == Get(preset_settings, "png_compress_level", 9)
  IN Encoded("PNG", img, output_path, None, Some(compress_level), None,
             save_kwargs)

OptimizeWebp(img, output_path, quality, preset_settings, save_kwargs) ==
  LET webp_quality == Get(preset_settings, "webp_quality", quality)
      webp_method == Get(preset_settings, "webp_method", 6)
  IN Encoded("WEBP", img, output_path, Some(webp_quality), None,
             Some(webp_method), save_kwargs)

\* The file img.save leaves at the destination.
WrittenFile(e, size) ==
  [format |-> e.codec, mode |-> e.mode, width |-> e.width,
   height |-> e.height, exif |-> e.exif,
   size |-> size]

\* f"{os.path.splitext(path)[0]}.{ext}"
WithExtension(path, ext) == SplitExt(path)[1] \o "." \o ext

\* The percentage cut to two decimals instead of rounded.
TruncatePercentX100(n, d) == (n * 10000) \div d

\* round(x, 2) of x = n / d * 100 (d > 0), in hundredths: the nearest
\* hundredth, a tie going to the even one.  Python rounds the double it
\* computed; for d below 160 that double rounds as the exact quotient does.
RoundPercentX100(n, d) ==
  LET q == (n * 10000) \div d
      r == (n * 10000) % d
  IN IF 2 * r > d \/ (2 * r = d /\ q % 2 = 1) THEN q + 1 ELSE q

\* The value optimize_image returns, with the directory and the encoder call
\* it leaves behind.
Outcome(res, fs, e) == [result |-> res, files |-> fs, enc |-> e]

\* A failure result that keeps a size field.
FailureResultWithSize(error) ==
  [success |-> FALSE, error |-> error, original_size |-> 0]

\* Lines 162-167: the except clause.
FailureResult(error) == [success |-> FALSE, error |-> error]

\* Lines 135-160: the reduction and the success dict, from the context c
\* of the call and the size read from the destination.
SuccessResult(c, optimized_size) ==
  [success |-> TRUE,
   original_size |-> c.original_size,
   optimized_size |-> optimized_size,
   reduction_bytes |-> c.original_size - optimized_size,
   reduction_percent_x100 |->
     IF c.original_size > 0
       THEN RoundPercentX100(c.original_size - optimized_size,
                             c.original_size)
       ELSE 0,
   format |-> c.original_format,
   output_format |-> c.target_format,
   format_converted |-> c.output_format # "same",
   original_width |-> c.original_width,
   original_height |-> c.original_height,
   width |-> c.new_width,
   height |-> c.new_height,
   mode |-> c.original_mode,
   resized |-> c.resize_percent # 100,
   metadata_stripped |-> c.strip_metadata,
   auto_oriented |-> c.auto_orient,
   preset |-> c.preset,
   quality_used |->
     IF c.target_format \in {"JPEG", "WEBP"} THEN Some(c.quality) ELSE None,
   sharpened |-> c.sharpen > 0,
   sharpen_amount |-> c.sharpen]

\* The EXIF block kept across a format conversion.
SaveKwargsAnyFormat(c) ==
  IF ~c.strip_metadata /\ c.exif_data # "none"
    THEN [k \in {"exif"} |-> c.exif_data]
    ELSE EmptyDict

\* Lines 109-112: the save keywords.
SaveKwargs(c) ==
  IF ~c.strip_metadata /\ c.exif_data # "none"
       /\ c.target_format = c.original_format
    THEN [k \in {"exif"} |-> c.exif_data]
    ELSE EmptyDict

\* Lines 114-130: the dispatch on the target format.
EncodeCall(c, img) ==
  CASE c.target_format \in {"JPEG", "JPG"} ->
         OptimizeJpeg(img, c.target_path, c.quality, c.preset_settings,
                      SaveKwargs(c))
    [] c.target_format = "PNG" ->
         OptimizePng(img, c.target_path, c.preset_settings, SaveKwargs(c))
    [] c.target_format = "WEBP" ->
         OptimizeWebp(img, c.target_path, c.quality, c.preset_settings,
                      SaveKwargs(c))
    [] OTHER ->
         OptimizeJpeg(img, c.target_path, c.quality, c.preset_settings,
                      SaveKwargs(c))

\* The extension rewritten whatever the output format.
TargetPathAlwaysRewritten(output_format, output_path) ==
  WithExtension(output_path, output_format)

\* Lines 86-93.
TargetFormat(output_format, original_format) ==
  IF output_format = "same" THEN original_format ELSE Upper(output_format)

TargetPath(output_format, output_path) ==
  IF output_format = "same"
    THEN output_path
    ELSE WithExtension(output_path, output_format)

\* Lines 95-102.
NeedsFlatten(target_format, img) ==
  target_format = "JPEG" /\ img.mode \in AlphaModes

\* The target dimension rounded up instead of truncated.
ScaledDimensionCeil(original, resize_percent) ==
  IF resize_percent # 100
    THEN FloorDiv(original * resize_percent + 99, 100)
    ELSE original

\* Lines 76-79: the target dimension of one axis.
ScaledDimension(original, resize_percent) ==
  IF resize_percent # 100
    THEN FloorDiv(original * resize_percent, 100)
    ELSE original

\* optimize_image runs in stages; each stage is given the context c of the
\* call (the options, the paths, the directory, the environment and what the
\* earlier stages captured) and the image img as it stands, and either ends
\* the call in the except clause or hands on to the next stage.

\* Lines 132-160: stat the destination and build the result.
ReportStage(c, e, fs_saved) ==
  IF c.env.fault = "stat_output"
    THEN Outcome(FailureResult("getsize"), fs_saved, e)
    ELSE Outcome(SuccessResult(c, fs_saved[e.path].size), fs_saved, e)

\* Lines 108-130: encode; a save that raises may leave a partial file.
SaveStage(c, e) ==
  IF c.env.fault = "encode"
    THEN Outcome(FailureResult("save"),
                 IF c.env.partial
                   THEN [p \in DOMAIN c.fs \cup {e.path} |->
                           IF p = e.path
                             THEN [WrittenFile(e, 0) EXCEPT
                                     !.format = "partial"]
                             ELSE c.fs[p]]
                   ELSE c.fs,
                 e)
    ELSE ReportStage(c, e,
                     [p \in DOMAIN c.fs \cup {e.path} |->
                        IF p = e.path
                          THEN WrittenFile(e, c.env.encoded_size)
                          ELSE c.fs[p]])

\* Lines 104-106: the final metadata strip, then the encode call.
EncodeStage(c, img) ==
  SaveStage(c, EncodeCall(c, IF c.strip_metadata
                               THEN ClearInfo(img)
                               ELSE img))

\* Lines 95-102: flatten for JPEG.
FlattenStage(c, img) ==
  EncodeStage(c, IF NeedsFlatten(c.target_format, img)
                   THEN FlattenOnWhite(img)
                   ELSE img)

\* Lines 86-93: the target format and path.
FormatStage(c, img) ==
  FlattenStage(
    c @@ [target_format |-> TargetFormat(c.output_format, c.original_format),
          target_path |-> TargetPath(c.output_format, c.output_path)],
    img)

\* Lines 82-84: sharpen.
SharpenStage(c, img) ==
  IF SharpeningRaises(img, c.sharpen, c.env.fault)
    THEN Outcome(FailureResult("filter"), c.fs, NoEnc)
    ELSE FormatStage(c, IF c.sharpen > 0
                          THEN ApplySharpening(img, c.sharpen, c.env.fault)
                          ELSE img)

\* Lines 75-80: resize to the target dimensions.
ResizeStage(c, img) ==
  IF c.resize_percent # 100
    THEN IF ResizeRaises(c.new_width, c.new_height) \/ c.env.fault = "resize"
           THEN Outcome(FailureResult("resize"), c.fs, NoEnc)
           ELSE SharpenStage(c, Resize(img, c.new_width, c.new_height))
    ELSE SharpenStage(c, img)

\* The target height computed from the width.
DimensionStageWidthTwice(c, img) ==
  ResizeStage(
    c @@ [original_width |-> img.width,
          original_height |-> img.height,
          new_width |-> ScaledDimension(img.width, c.resize_percent),
          new_height |-> ScaledDimension(img.width, c.resize_percent)],
    img)

\* Lines 72-79: the original and the target dimensions.
DimensionStage(c, img) ==
  ResizeStage(
    c @@ [original_width |-> img.width,
          original_height |-> img.height,
          new_width |-> ScaledDimension(img.width, c.resize_percent),
          new_height |-> ScaledDimension(img.height, c.resize_percent)],
    img)

\* Lines 63-70: auto-orient, then strip.
OrientStage(c, img) ==
  DimensionStage(
    c,
    IF c.strip_metadata
      THEN ClearInfo(IF c.auto_orient THEN ExifTranspose(img) ELSE img)
      ELSE IF c.auto_orient THEN ExifTranspose(img) ELSE img)

\* Lines 50-61: open, capture size, format, mode and EXIF block.
OpenStage(c, src) ==
  IF src.size = 0 \/ c.env.fault = "decode"
    THEN Outcome(FailureResult("open"), c.fs, NoEnc)
    ELSE OrientStage(
           c @@ [original_size |-> src.size,
                 original_format |-> src.format,
                 original_mode |-> ImageOpen(src).mode,
                 exif_data |->
                   IF ~c.strip_metadata /\ ImageOpen(src).info_exif # "none"
                     THEN ImageOpen(src).info_exif
                     ELSE "none"],
           ImageOpen(src))

\* Lines 33-50: the options with their defaults, and the stat of the input.
CallContext(fs, output_path, opts, env) ==
  [fs |-> fs, output_path |-> output_path, env |-> env,
   quality |-> Get(opts, "quality", DEFAULT_QUALITY),
   resize_percent |-> Get(opts, "resize_percent", DEFAULT_RESIZE_PERCENT),
   strip_metadata |-> Get(opts, "strip_metadata", STRIP_METADATA_DEFAULT),
   auto_orient |-> Get(opts, "auto_orient", AUTO_ORIENT_DEFAULT),
   preset |-> Get(opts, "preset", DEFAULT_PRESET),
   sharpen |-> Get(opts, "sharpen", SHARPEN_DEFAULT),
   output_format |-> Get(opts, "output_format", OUTPUT_FORMAT_DEFAULT),
   preset_settings |->
     Get(PRESETS, Get(opts, "preset", DEFAULT_PRESET), PRESETS["balanced"])]

\* ImageOptimizer.optimize_image(input_path, output_path, options) on the
\* directory fs.  env is what the environment does to this call: env.fault
\* names the library or file-system call that raises ("none" for none),
\* env.encoded_size is the size of the file the encoder writes, env.partial
\* says whether a save that raises leaves a file behind.
OptimizeImage(fs, input_path, output_path, opts, env) ==
  IF input_path \notin DOMAIN fs \/ env.fault = "stat_input"
    THEN Outcome(FailureResult("getsize"), fs, NoEnc)
    ELSE OpenStage(CallContext(fs, output_path, opts, env), fs[input_path])

(***************************************************************************)
(* validator.py                                                            *)
(***************************************************************************)
\* A client file name is the text the request carries.  allowed_file reads
\* it as it came: it wants a dot in it and looks up what follows the last
\* dot, lower-cased.
AllowedFile(filename) ==
  /\ filename # ""
  /\ Contains(filename, ".")
  /\ LET extension == Lower(AfterLastDot(filename))
     IN /\ extension \in ALLOWED_EXTENSIONS
        /\ extension \notin REJECTED_EXTENSIONS

\* What libmagic reports for the stored bytes.
MimeType(file) ==
  CASE file.size = 0 -> "inode/x-empty"
    [] file.format \in {"JPEG", "MPO"} -> "image/jpeg"
    [] file.format = "PNG" -> "image/png"
    [] file.format = "WEBP" -> "image/webp"
    [] file.format = "GIF" -> "image/gif"
    [] OTHER -> "application/octet-stream"

ValidateMimeType(file) == MimeType(file) \in ALLOWED_MIME_TYPES

ValidateFileSize(file) == file.size <= MAX_CONTENT_LENGTH

ValidateUpload(filename, file) ==
  /\ AllowedFile(filename)
  /\ ValidateMimeType(file)
  /\ ValidateFileSize(file)

\* get_safe_filename: secure_filename, then name_<milliseconds><ext> with
\* the name and the extension os.path.splitext finds in the secured name.
GetSafeFilename(filename, now) ==
  LET safe_name == SecureFilename(filename)
      timestamp == Str(now)
      name == SplitExt(safe_name)[1]
      ext == SplitExt(safe_name)[2]
  IN name \o "_" \o timestamp \o ext

(***************************************************************************)
(* cleanup.py                                                              *)
(***************************************************************************)
\* FileCleanup.cleanup_specific_files on the list file_paths.  bound says
\* that current_app is bound to an application.  Where it is, every path
\* that exists is removed.  Where it is not, current_app.logger raises after
\* the first removal, raises again in the except clause, and the error
\* leaves the loop: the first path that exists is removed and no other.
CleanupSpecificFiles(fs, file_paths, bound) ==
  LET found == {i \in DOMAIN file_paths : file_paths[i] \in DOMAIN fs}
      reached == IF bound THEN found
                 ELSE {i \in found : \A j \in found : i <= j}
  IN [p \in DOMAIN fs \ {file_paths[i] : i \in reached} |-> fs[p]]

\* The upload folder as a sweep sees it: a function from the names
\* os.listdir gives to [kind, mtime], kind "file" or "dir", mtime in seconds.
\* The sweep that removes at the age limit as well.
CleanupOldFilesFromAge(fs, current_time, max_age) ==
  [n \in {m \in DOMAIN fs :
            fs[m].kind = "dir" \/ current_time - fs[m].mtime < max_age} |->
     fs[n]]

\* FileCleanup.cleanup_old_files with current_time = time.time(): every
\* entry that is no directory and whose age exceeds max_age is removed.
CleanupOldFiles(fs, current_time, max_age) ==
  [n \in {m \in DOMAIN fs :
            fs[m].kind = "dir" \/ ~(current_time - fs[m].mtime > max_age)} |->
     fs[n]]

\* thread.join(timeout=5)
JoinTimeout == 5

\* A thread of _background_cleanup_task is [pc, waited, current_time]: pc
\* "check" at the while test, "waiting" in _stop_event.wait (waited seconds
\* so far), "woke" when the wait has returned False, "sweeping" inside
\* cleanup_old_files (current_time is its time.time()), "dead" once the
\* function has returned.
Thread(at, waited, current_time) ==
  [pc |-> at, waited |-> waited, current_time |-> current_time]

NewThread == Thread("check", 0, 0)
DeadThread == Thread("dead", 0, 0)

\* A thread inside cleanup_old_files also holds the names os.listdir gave
\* and the loop has not reached yet (todo), and the name whose age test has
\* passed and whose os.remove has not been made yet (doomed, empty when
\* there is none); listed is the folder as it was when the sweep began and
\* alone says whether no file was written since.
Sweeping(current_time, listed, todo, doomed, alone) ==
  [pc |-> "sweeping", waited |-> 0, current_time |-> current_time,
   listed |-> listed, todo |-> todo, doomed |-> doomed, alone |-> alone]

\* Lines 49-55: the entry is no directory and its age exceeds max_age.
TooOld(entry, current_time, max_age) ==
  entry.kind # "dir" /\ current_time - entry.mtime > max_age

\* A wait that sleeps the interval through whatever the event.
WaitIgnoringEvent(flag, waited, interval) ==
  IF waited >= interval THEN "timeout" ELSE "blocked"

\* threading.Event.wait(timeout=interval) of a thread that has waited for
\* `waited` seconds: it returns True as soon as the flag is set, False when
\* the interval is over, and blocks otherwise.
EventWait(flag, waited, interval) ==
  IF flag THEN "signalled"
  ELSE IF waited >= interval THEN "timeout"
  ELSE "blocked"

\* Thread.is_alive() of self._cleanup_thread.
IsAlive(ts, thread) == thread # None /\ ts[thread[1]].pc # "dead"

(***************************************************************************)
(* routes.py                                                               *)
(***************************************************************************)
\* os.path.join(upload_folder, f"{prefix}_{safe_filename}"), as the path
\* below the upload folder.
WorkingPath(prefix, safe_filename) == prefix \o "_" \o safe_filename

\* A numeric form field is [numeric, value]: int() raises ValueError unless
\* the text is numeric.  A field the form lacks takes the default.
IntField(form, key, default) ==
  Get(form, key, [numeric |-> TRUE, value |-> default])

\* Clamp without its lower limit.
ClampUpperOnly(value, lo, hi) == Min(value, hi)

\* max(lo, min(value, hi))
Clamp(value, lo, hi) == Max(lo, Min(value, hi))

BoolField(form, key) == Lower(Get(form, key, "true")) = "true"

\* Lines 153-180 of upload_image and 43-68 of reoptimize_image.
OptionsParse(form) ==
  /\ IntField(form, "quality", DEFAULT_QUALITY).numeric
  /\ IntField(form, "resize_percent", DEFAULT_RESIZE_PERCENT).numeric
  /\ IntField(form, "sharpen", SHARPEN_DEFAULT).numeric

ParseOptions(form) ==
  LET preset == Get(form, "preset", DEFAULT_PRESET)
      output_format == Get(form, "output_format", OUTPUT_FORMAT_DEFAULT)
  IN [quality |->
        Clamp(IntField(form, "quality", DEFAULT_QUALITY).value,
              MIN_QUALITY, MAX_QUALITY),
      resize_percent |->
        Clamp(IntField(form, "resize_percent", DEFAULT_RESIZE_PERCENT).value,
              MIN_RESIZE_PERCENT, MAX_RESIZE_PERCENT),
      sharpen |->
        Clamp(IntField(form, "sharpen", SHARPEN_DEFAULT).value,
              MIN_SHARPEN, MAX_SHARPEN),
      strip_metadata |-> BoolField(form, "strip_metadata"),
      auto_orient |-> BoolField(form, "auto_orient"),
      preset |->
        IF preset \in DOMAIN PRESETS THEN preset ELSE DEFAULT_PRESET,
      output_format |->
        IF output_format \in OUTPUT_FORMATS
          THEN output_format
          ELSE OUTPUT_FORMAT_DEFAULT]

\* The safe file name the response carries (upload 220-224, reoptimize 95-99).
FinalFilename(safe_filename, optimization_result, output_format) ==
  IF optimization_result.format_converted
    THEN WithExtension(safe_filename, output_format)
    ELSE safe_filename

ErrorResponse(status, error) == [status |-> status, error |-> error]

\* The 200 body of /upload and /reoptimize.
OkResponse(final_filename, r) ==
  [status |-> 200,
   safe_filename |-> final_filename,
   original_size |-> r.original_size,
   optimized_size |-> r.optimized_size,
   reduction_bytes |-> r.reduction_bytes,
   reduction_percent_x100 |-> r.reduction_percent_x100,
   format |-> r.format,
   output_format |-> r.output_format,
   format_converted |-> r.format_converted,
   original_width |-> r.original_width,
   original_height |-> r.original_height,
   width |-> r.width,
   height |-> r.height,
   resized |-> r.resized,
   metadata_stripped |-> r.metadata_stripped,
   auto_oriented |-> r.auto_oriented,
   preset |-> r.preset,
   quality_used |-> r.quality_used,
   sharpened |-> r.sharpened,
   sharpen_amount |-> r.sharpen_amount,
   download_url |-> final_filename]

\* What a handler leaves: the directory, the options it handed to the
\* pipeline, the pipeline's result and encoder call, and the response.
Handled(fs, opts, res, e, resp) ==
  [files |-> fs, options |-> opts, result |-> res, enc |-> e,
   response |-> resp]

\* Lines 215-253 of upload_image: o is what optimize_image left.
UploadRespond(safe_filename, opts, o) ==
  IF ~o.result.success
    THEN Handled(CleanupSpecificFiles(
                   o.files, <<WorkingPath("original", safe_filename),
                              WorkingPath("optimized", safe_filename)>>,
                   TRUE),
                 opts, o.result, o.enc,
                 ErrorResponse(500, "Optimization failed"))
    ELSE Handled(o.files, opts, o.result, o.enc,
                 OkResponse(FinalFilename(safe_filename, o.result,
                                          opts.output_format),
                            o.result))

\* Lines 92-127 of reoptimize_image.
ReoptimizeRespond(safe_filename, opts, o) ==
  IF ~o.result.success
    THEN Handled(o.files, opts, o.result, o.enc,
                 ErrorResponse(500, "Optimization failed"))
    ELSE Handled(o.files, opts, o.result, o.enc,
                 OkResponse(FinalFilename(safe_filename, o.result,
                                          opts.output_format),
                            o.result))

\* upload_image.  r is the request: r.upload is the file part (not present
\* when the request has none), r.form the form, r.now the clock, r.env the
\* environment of the pipeline call.
UploadImageHandler(fs, r) ==
  IF ~r.upload.present
    THEN Handled(fs, NoOptions, NoResult, NoEnc,
                 ErrorResponse(400, "No file provided"))
  ELSE IF r.upload.filename = ""
    THEN Handled(fs, NoOptions, NoResult, NoEnc,
                 ErrorResponse(400, "No file selected"))
  ELSE IF ~OptionsParse(r.form)
    THEN Handled(fs, NoOptions, NoResult, NoEnc,
                 ErrorResponse(400, "Invalid options"))
  ELSE
    LET opts == ParseOptions(r.form)
        safe_filename == GetSafeFilename(r.upload.filename, r.now)
        input_path == WorkingPath("original", safe_filename)
        output_path == WorkingPath("optimized", safe_filename)
        fs_saved ==
          [p \in DOMAIN fs \cup {input_path} |->
             IF p = input_path THEN r.upload.image ELSE fs[p]]
    IN IF ~ValidateUpload(r.upload.filename, r.upload.image)
         THEN Handled([p \in DOMAIN fs_saved \ {input_path} |-> fs_saved[p]],
                      NoOptions, NoResult, NoEnc,
                      ErrorResponse(400, "Invalid file"))
       ELSE UploadRespond(safe_filename, opts,
                          OptimizeImage(fs_saved, input_path, output_path,
                                        opts, r.env))

\* reoptimize_image.  r.safe_filename is the form's safe_filename; a form
\* without the field and a form with an empty one are answered alike
\* (line 32), and NoFilename stands for both.
NoFilename == ""

\* What the client holds before any answer: no safe name.  intact says that
\* since the upload behind the name no /download was answered 200 and no
\* /cleanup-all was served.
NoQuote == [safe_filename |-> NoFilename, intact |-> FALSE]

ReoptimizeImageHandler(fs, r) ==
  IF r.safe_filename = NoFilename
    THEN Handled(fs, NoOptions, NoResult, NoEnc,
                 ErrorResponse(400, "No filename provided"))
  ELSE IF WorkingPath("original", r.safe_filename) \notin DOMAIN fs
    THEN Handled(fs, NoOptions, NoResult, NoEnc,
                 ErrorResponse(404, "Original file not found"))
  ELSE IF ~OptionsParse(r.form)
    THEN Handled(fs, NoOptions, NoResult, NoEnc,
                 ErrorResponse(400, "Invalid options"))
  ELSE
    LET opts == ParseOptions(r.form)
        input_path == WorkingPath("original", r.safe_filename)
        output_path ==
          IF opts.output_format # "same"
            THEN WorkingPath("optimized",
                             WithExtension(r.safe_filename,
                                           opts.output_format))
            ELSE WorkingPath("optimized", r.safe_filename)
    IN ReoptimizeRespond(r.safe_filename, opts,
                         OptimizeImage(fs, input_path, output_path, opts,
                                       r.env))

\* download_image to its return: the response, with the paths of the
\* callback registered on its close (none when nothing is registered).
DownloadImageHandler(fs, filename) ==
  LET input_path == WorkingPath("original", filename)
      output_path == WorkingPath("optimized", filename)
  IN IF output_path \notin DOMAIN fs
       THEN Handled(fs, NoOptions, NoResult, NoEnc,
                    ErrorResponse(404, "File not found"))
       ELSE Handled(fs, NoOptions, NoResult, NoEnc,
                    [status |-> 200, download_name |-> output_path,
                     sent |-> fs[output_path],
                     call_on_close |-> IF DELETE_AFTER_RESPONSE
                                         THEN {<<input_path, output_path>>}
                                         ELSE {}])

\* cleanup_all: every file of the upload folder is removed.
CleanupAllHandler(fs) ==
  Handled(EmptyDict, NoOptions, NoResult, NoEnc,
          [status |-> 200, success |-> TRUE, count |-> Cardinality(DOMAIN fs)])

(***************************************************************************)
(* The requests of the model.                                              *)
(***************************************************************************)
Num(v) == [numeric |-> TRUE, value |-> v]
NotNum == [numeric |-> FALSE, value |-> 0]

\* The seven settings, as a form (numbers as numeric fields, booleans as
\* text) or as the options dict of a direct call (numbers and booleans).
Settings(q, rp, sh, strip, orient, preset, fmt) ==
  [quality |-> q, resize_percent |-> rp, sharpen |-> sh,
   strip_metadata |-> strip, auto_orient |-> orient, preset |-> preset,
   output_format |-> fmt]

Image(format, mode, dims, exif, size) ==
  [format |-> format, mode |-> mode, width |-> dims[1], height |-> dims[2],
   exif |-> exif, size |-> size]

NoImage == Image("none", "none", <<0, 0>>, "none", 0)

\* The formats and modes the decoder reports.  JPEG, PNG and WEBP are the
\* formats the service accepts; MPO is a JPEG variant libmagic reports as
\* image/jpeg; GIF reaches the pipeline only by a direct call.
SourceKinds ==
  {<<"JPEG", "RGB">>, <<"JPEG", "L">>, <<"PNG", "RGB">>, <<"PNG", "RGBA">>,
   <<"PNG", "LA">>, <<"PNG", "P">>, <<"WEBP", "RGB">>, <<"WEBP", "RGBA">>,
   <<"MPO", "RGB">>, <<"GIF", "P">>}

Exifs(format) ==
  IF format = "GIF" THEN {"none"} ELSE {"none", "plain", "rot90"}

Dims == {<<3, 2>>, <<5, 7>>, <<2000, 1000>>}

ExtensionOf(format) ==
  CASE format = "JPEG" -> "jpg"
    [] format = "MPO" -> "jpg"
    [] format = "PNG" -> "png"
    [] format = "WEBP" -> "webp"
    [] OTHER -> "gif"

Env(fault, encoded_size, partial) ==
  [fault |-> fault, encoded_size |-> encoded_size, partial |-> partial]

Faults ==
  {"none", "stat_input", "decode", "resize", "unsharp", "filter", "encode",
   "stat_output"}

RequestOf(kind, form, opts, upload, safe_filename, stored, env) ==
  [kind |-> kind, form |-> form, opts |-> opts, upload |-> upload,
   safe_filename |-> safe_filename, stored |-> stored, now |-> 1001,
   env |-> env]

FilePart(filename, image) ==
  [present |-> TRUE, filename |-> filename, image |-> image]

NoFilePart ==
  [present |-> FALSE, filename |-> "", image |-> NoImage]

UploadRequest(form, filename, image, env) ==
  RequestOf("upload", form, EmptyDict, FilePart(filename, image), NoFilename,
            NoImage, env)

ReoptimizeRequest(form, safe_filename, stored, env) ==
  RequestOf("reoptimize", form, EmptyDict, NoFilePart, safe_filename, stored,
            env)

CallRequest(opts, safe_filename, stored, env) ==
  RequestOf("call", EmptyDict, opts, NoFilePart, safe_filename, stored, env)

PhotoName(format) == "photo." \o ExtensionOf(format)
\* The safe name an earlier upload of the photo was given.
PhotoSafe(format) == GetSafeFilename(PhotoName(format), 1000)

BoolText(b) == IF b THEN "true" ELSE "false"

\* One scenario as the three requests that carry it: the same typed settings
\* and image by /upload, by /reoptimize and by a direct call.  The service
\* stores no GIF, so a GIF source comes by a direct call only.
Carriers(q, rp, sh, strip, orient, preset, fmt, image, env) ==
  LET form == Settings(Num(q), Num(rp), Num(sh), BoolText(strip),
                       BoolText(orient), preset, fmt)
      opts == Settings(q, rp, sh, strip, orient, preset, fmt)
      safe == PhotoSafe(image.format)
  IN {CallRequest(opts, safe, image, env)}
       \cup (IF image.format = "GIF"
               THEN {}
               ELSE {UploadRequest(form, PhotoName(image.format), image, env),
                     ReoptimizeRequest(form, safe, image, env)})

Calm == Env("none", 10, FALSE)

\* Formats, modes, metadata and the codec settings.
FormatRequest ==
  \E q \in {1, 50, 95}, sh \in {0, 40}, strip \in BOOLEAN,
     preset \in {"speed", "balanced", "max_quality"},
     fmt \in OUTPUT_FORMATS, k \in SourceKinds,
     exif \in {"none", "plain", "rot90"} :
    req \in Carriers(q, 100, sh, strip, TRUE, preset, fmt,
               Image(k[1], k[2], <<2000, 1000>>, exif, 20), Calm)

\* Geometry: dimensions, resize percentage, orientation.
GeometryRequest ==
  \E rp \in {10, 33, 50, 100, 150, 200}, strip \in BOOLEAN,
     orient \in BOOLEAN, d \in Dims,
     k \in {<<"JPEG", "RGB">>, <<"PNG", "RGBA">>},
     exif \in {"none", "plain", "rot90"} :
    req \in Carriers(85, rp, 0, strip, orient, "balanced", "same",
               Image(k[1], k[2], d, exif, 20), Calm)

\* Forms as clients send them: out of range, not numeric, unknown names,
\* fields left out.
RawNumbers(lo, hi) == {NotNum, Num(lo - 6), Num(lo - 1), Num(lo), Num(hi),
                       Num(hi + 1), Num(hi + 205)}

RawForms ==
  {Settings(q, rp, sh, "True", "on", preset, fmt) :
     q \in RawNumbers(MIN_QUALITY, MAX_QUALITY),
     rp \in RawNumbers(MIN_RESIZE_PERCENT, MAX_RESIZE_PERCENT),
     sh \in RawNumbers(MIN_SHARPEN, MAX_SHARPEN),
     preset \in {"speed", "fastest"}, fmt \in {"same", "webp", "tiff"}}
    \cup {EmptyDict, [quality |-> Num(40)], [output_format |-> "png"]}

FormRequest ==
  \E form \in RawForms, f \in {"JPEG", "PNG"} :
    req \in {UploadRequest(form, PhotoName(f), Image(f, "RGB", <<5, 7>>,
                                                "none", 20), Calm),
       ReoptimizeRequest(form, PhotoSafe(f),
                         Image(f, "RGB", <<5, 7>>, "none", 20), Calm)}

\* File sizes.
SizeRequest ==
  \E size \in 0 .. MaxBytes, encoded \in 1 .. MaxBytes :
    req \in Carriers(85, 100, 0, TRUE, TRUE, "balanced", "same",
               Image("JPEG", "RGB", <<3, 2>>, "none", size),
               Env("none", encoded, FALSE))

\* Faults of the library and the file system.
FaultRequest ==
  \E rp \in {10, 50, 100}, sh \in {0, 40}, fmt \in {"same", "jpeg"},
     k \in {<<"JPEG", "RGB">>, <<"PNG", "P">>, <<"PNG", "RGBA">>},
     fault \in Faults, partial \in BOOLEAN :
    req \in Carriers(85, rp, sh, FALSE, TRUE, "balanced", fmt,
               Image(k[1], k[2], <<5, 7>>, "plain", 20),
               Env(fault, 10, partial))

\* Requests the handlers turn away, and direct calls that take defaults.
GuardRequest ==
  LET jpeg == Image("JPEG", "RGB", <<3, 2>>, "none", 20)
      gif == Image("GIF", "P", <<3, 2>>, "none", 20)
  IN req \in
     {RequestOf("upload", EmptyDict, EmptyDict, NoFilePart, NoFilename,
                NoImage, Calm),
      UploadRequest(EmptyDict, "", jpeg, Calm),
      UploadRequest(EmptyDict, "photo", jpeg, Calm),
      UploadRequest(EmptyDict, "photo.gif", gif, Calm),
      UploadRequest(EmptyDict, "photo.svg", jpeg, Calm),
      UploadRequest(EmptyDict, "photo.png", gif, Calm),
      UploadRequest(EmptyDict, "photo.png", jpeg, Calm),
      UploadRequest(EmptyDict, "photo.JPG", jpeg, Calm),
      UploadRequest(EmptyDict, "photo.Jpeg", jpeg, Calm),
      UploadRequest([output_format |-> "webp"],
                    "photo.PNG",
                    Image("PNG", "RGBA", <<3, 2>>, "none", 20), Calm),
      UploadRequest(EmptyDict, "photo.GIF", gif, Calm),
      ReoptimizeRequest(EmptyDict, NoFilename, NoImage, Calm),
      ReoptimizeRequest(EmptyDict, PhotoSafe("JPEG"), NoImage, Calm),
      CallRequest(EmptyDict, PhotoSafe("JPEG"), jpeg, Calm),
      CallRequest(EmptyDict, PhotoSafe("JPEG"), NoImage, Calm),
      CallRequest([output_format |-> "webp"], PhotoSafe("PNG"),
                  Image("PNG", "RGBA", <<3, 2>>, "plain", 20), Calm)}

\* Names and spellings as clients send them: upper-case letters in the
\* extension and in the booleans, names secure_filename changes, names it
\* leaves without a stem or without an extension.
RawNames ==
  {".jpg", "__.JPG", "___.png", "photo.Png", "photo.WebP", "photo.jPEG",
   "my photo.jpg", "../photo.jpg", "a.b.jpeg", "photo.", "jpg", "._.",
   "photo.j pg", "ab.jpg", "ab.png", "café.jpg",
   "a b.JPG", "½.jpg", "ß.png"}

RawSpellings ==
  {EmptyDict, [strip_metadata |-> "tRuE"],
   [strip_metadata |-> "FALSE", auto_orient |-> "tRUE"],
   [strip_metadata |-> "yes", auto_orient |-> "False"],
   [output_format |-> "png"], [output_format |-> "Jpeg"]}

NameRequest ==
  \E filename \in RawNames, form \in RawSpellings,
     exif \in {"none", "rot90"} :
    req = UploadRequest(form, filename,
                        Image("JPEG", "RGB", <<3, 2>>, exif, 20), Calm)

\* The request of a behaviour is one of these.
IsRequest ==
  \/ FormatRequest
  \/ GeometryRequest
  \/ FormRequest
  \/ SizeRequest
  \/ FaultRequest
  \/ GuardRequest
  \/ NameRequest

\* The working directory a request finds: the original an earlier upload
\* stored, for a request that refers to one.
StoredFiles(r) ==
  IF r.stored = NoImage
    THEN [p \in {} |-> NoImage]
    ELSE [p \in {WorkingPath("original", r.safe_filename)} |-> r.stored]

(***************************************************************************)
(* The state machine.                                                      *)
(***************************************************************************)
\* No session is under way; no FileCleanup object is at work.
NoSession ==
  /\ clock = 0
  /\ issued = <<>>
  /\ origin = NoFilename
  /\ quoted = NoQuote
  /\ closing = EmptyBag

NoSweeper ==
  /\ folder = [n \in {} |-> None]
  /\ cleanup_thread = None
  /\ stop_event = FALSE
  /\ threads = <<>>
  /\ caller = "idle"
  /\ sweeps = 0

Init ==
  /\ pc = "request"
  /\ IsRequest
  /\ files = StoredFiles(req)
  /\ options = NoOptions
  /\ result = NoResult
  /\ enc = NoEnc
  /\ response = NoResponse
  /\ NoSession
  /\ NoSweeper

\* POST /upload
UploadImage ==
  /\ pc = "request"
  /\ req.kind = "upload"
  /\ LET h == UploadImageHandler(files, req)
     IN /\ files' = h.files
        /\ options' = h.options
        /\ result' = h.result
        /\ enc' = h.enc
        /\ response' = h.response
  /\ pc' = "done"
  /\ UNCHANGED <<req, session_vars, sweeper_vars>>

\* POST /reoptimize
ReoptimizeImage ==
  /\ pc = "request"
  /\ req.kind = "reoptimize"
  /\ LET h == ReoptimizeImageHandler(files, req)
     IN /\ files' = h.files
        /\ options' = h.options
        /\ result' = h.result
        /\ enc' = h.enc
        /\ response' = h.response
  /\ pc' = "done"
  /\ UNCHANGED <<req, session_vars, sweeper_vars>>

\* ImageOptimizer.optimize_image called directly with an options dict.
OptimizeCall ==
  /\ pc = "request"
  /\ req.kind = "call"
  /\ LET o == OptimizeImage(files, WorkingPath("original", req.safe_filename),
                            WorkingPath("optimized", req.safe_filename),
                            req.opts, req.env)
     IN /\ files' = o.files
        /\ options' = req.opts
        /\ result' = o.result
        /\ enc' = o.enc
  /\ pc' = "done"
  /\ UNCHANGED <<req, response, session_vars, sweeper_vars>>

Next == UploadImage \/ ReoptimizeImage \/ OptimizeCall

Spec == Init /\ [][Next]_vars

(***************************************************************************)
(* A session: requests one after another on one working directory.  The    *)
(* client uploads photos, and sends /reoptimize and /download with the     *)
(* safe name the latest answer of /upload or /reoptimize carried.  The     *)
(* response of a /download is closed at some later step, or never.         *)
(***************************************************************************)
\* Uploads of one session, and readings the clock moves through.
MaxUploads == 2
MaxTicks == 1
\* The responses of /download that may be open at once.
MaxClosing == 1

NoRequest ==
  RequestOf("none", EmptyDict, EmptyDict, NoFilePart, NoFilename, NoImage,
            Calm)

\* The photos a session uploads and the forms it sends.
SessionPhotos ==
  {Image("JPEG", "RGB", <<3, 2>>, "plain", 20),
   Image("PNG", "RGBA", <<3, 2>>, "none", 20)}

SessionForms == {[output_format |-> fmt] : fmt \in {"same", "jpeg", "png"}}

SessionEnvs == {Calm, Env("stat_output", 10, FALSE)}

SessionInit ==
  /\ pc = "session"
  /\ req = NoRequest
  /\ files = EmptyDict
  /\ options = NoOptions
  /\ result = NoResult
  /\ enc = NoEnc
  /\ response = NoResponse
  /\ NoSession
  /\ NoSweeper

\* POST /upload at the clock's reading.
SessionUpload ==
  /\ pc = "session"
  /\ Len(issued) < MaxUploads
  /\ \E form \in SessionForms, image \in SessionPhotos, env \in SessionEnvs :
       LET r == [UploadRequest(form, PhotoName(image.format), image, env)
                   EXCEPT !.now = clock]
           h == UploadImageHandler(files, r)
       IN /\ req' = r
          /\ files' = h.files
          /\ options' = h.options
          /\ result' = h.result
          /\ enc' = h.enc
          /\ response' = h.response
          /\ issued' = Append(issued, GetSafeFilename(r.upload.filename, clock))
          /\ origin' = IF h.response.status = 200
                         THEN GetSafeFilename(r.upload.filename, clock)
                         ELSE origin
          /\ quoted' = IF h.response.status = 200
                         THEN [safe_filename |-> h.response.safe_filename,
                               intact |-> TRUE]
                         ELSE quoted
  /\ UNCHANGED <<pc, clock, closing, sweeper_vars>>

\* POST /reoptimize with the safe name the client holds.
SessionReoptimize ==
  /\ pc = "session"
  /\ quoted.safe_filename # NoFilename
  /\ \E form \in SessionForms, env \in SessionEnvs :
       LET r == [ReoptimizeRequest(form, quoted.safe_filename, NoImage, env)
                   EXCEPT !.now = clock]
           h == ReoptimizeImageHandler(files, r)
       IN /\ req' = r
          /\ files' = h.files
          /\ options' = h.options
          /\ result' = h.result
          /\ enc' = h.enc
          /\ response' = h.response
          /\ quoted' = IF h.response.status = 200
                         THEN [quoted EXCEPT
                                 !.safe_filename = h.response.safe_filename]
                         ELSE quoted
  /\ UNCHANGED <<pc, clock, issued, origin, closing, sweeper_vars>>

\* GET /download/<filename> with the safe name the client holds, to the
\* return of the handler: the response is built and the cleanup is
\* registered with call_on_close; no file is removed yet.  Callback(paths,
\* upload) is a registered callback and the upload it was registered under.
Callback(paths, upload) == [paths |-> paths, origin |-> upload]

DownloadImage ==
  /\ pc = "session"
  /\ quoted.safe_filename # NoFilename
  /\ BagCardinality(closing) < MaxClosing
  /\ LET r == [NoRequest EXCEPT !.kind = "download",
                                !.safe_filename = quoted.safe_filename,
                                !.now = clock]
         h == DownloadImageHandler(files, quoted.safe_filename)
     IN /\ req' = r
        /\ files' = h.files
        /\ options' = h.options
        /\ result' = h.result
        /\ enc' = h.enc
        /\ response' = h.response
        /\ closing' = IF h.response.status = 200
                         THEN closing (+)
                                SetToBag({Callback(paths, origin) :
                                            paths \in
                                              h.response.call_on_close})
                         ELSE closing
        /\ quoted' = IF h.response.status = 200
                       THEN [quoted EXCEPT !.intact = FALSE]
                       ELSE quoted
  /\ UNCHANGED <<pc, clock, issued, origin, sweeper_vars>>

\* The server closes a response of /download: the callback registered on it
\* runs cleanup_specific_files.  The handler has returned by then and the
\* application context of the request is gone: current_app is not bound.
BoundAtClose == FALSE

CloseResponse ==
  /\ pc = "session"
  /\ \E c \in BagToSet(closing) :
       /\ files' = CleanupSpecificFiles(files, c.paths, BoundAtClose)
       /\ closing' = closing (-) SetToBag({c})
  /\ UNCHANGED <<pc, req, options, result, enc, response, clock, issued,
                 origin, quoted, sweeper_vars>>

\* POST /cleanup-all
CleanupAll ==
  /\ pc = "session"
  /\ LET h == CleanupAllHandler(files)
     IN /\ req' = [NoRequest EXCEPT !.kind = "cleanup_all", !.now = clock]
        /\ files' = h.files
        /\ options' = h.options
        /\ result' = h.result
        /\ enc' = h.enc
        /\ response' = h.response
        /\ quoted' = [quoted EXCEPT !.intact = FALSE]
  /\ UNCHANGED <<pc, clock, issued, origin, closing, sweeper_vars>>

\* The clock moves to its next reading.
Tick ==
  /\ pc = "session"
  /\ clock < MaxTicks
  /\ clock' = clock + 1
  /\ UNCHANGED <<request_vars, issued, origin, quoted, closing,
                 sweeper_vars>>

SessionNext ==
  \/ SessionUpload
  \/ SessionReoptimize
  \/ DownloadImage
  \/ CloseResponse
  \/ CleanupAll
  \/ Tick

SessionSpec == SessionInit /\ [][SessionNext]_vars

(***************************************************************************)
(* The FileCleanup object: FileCleanup(app) sweeps once and starts the     *)
(* sweeper thread; the thread waits the interval out and sweeps, until the *)
(* stop event is set; a caller starts and stops it.  The clock counts      *)
(* seconds here.                                                           *)
(***************************************************************************)
\* Threads started in one behaviour, and seconds the clock runs after
\* start-up.
MaxThreads == 2
MaxSeconds == 310

\* The clock's reading when the application starts, and the entries the
\* upload folder may hold then, by their age at start-up: a file of 7200
\* seconds and one of 100 seconds always, the others or not.
StartupAge == 7200

Entry(kind, age) == [kind |-> kind, mtime |-> StartupAge - age]

StartupEntries ==
  [n \in {"optimized_old.jpg", "original_over.png", "optimized_edge.png",
          "optimized_fresh.webp", "thumbs"} |->
     CASE n = "optimized_old.jpg" -> Entry("file", 7200)
       [] n = "original_over.png" -> Entry("file", CLEANUP_AGE_SECONDS + 1)
       [] n = "optimized_edge.png" -> Entry("file", CLEANUP_AGE_SECONDS)
       [] n = "optimized_fresh.webp" -> Entry("file", 100)
       [] n = "thumbs" -> Entry("dir", 7200)]

\* The working file requests write while the application runs: the
\* optimized_ file of an earlier upload, which every /reoptimize of that
\* upload writes again.
WrittenNames == {"optimized_edge.png"}

\* The thread calling start and stop: pc "new" before FileCleanup(app),
\* "idle" between calls, "joining" inside thread.join (waited seconds so
\* far); last names the call that returned last.
Caller(at, waited, last) == [pc |-> at, waited |-> waited, last |-> last]

SweeperInit ==
  /\ pc = "sweeper"
  /\ req = NoRequest
  /\ files = EmptyDict
  /\ options = NoOptions
  /\ result = NoResult
  /\ enc = NoEnc
  /\ response = NoResponse
  /\ clock = StartupAge
  /\ issued = <<>>
  /\ origin = NoFilename
  /\ quoted = NoQuote
  /\ closing = EmptyBag
  /\ \E names \in SUBSET DOMAIN StartupEntries :
       /\ {"optimized_old.jpg", "optimized_fresh.webp"} \subseteq names
       /\ folder = [n \in names |-> StartupEntries[n]]
  /\ cleanup_thread = None
  /\ stop_event = FALSE
  /\ threads = <<>>
  /\ caller = Caller("new", 0, "none")
  /\ sweeps = 0

\* start_background_cleanup on the threads ts, self._cleanup_thread and the
\* stop event: what it leaves of the three.
StartBackgroundCleanup(ts, thread, flag) ==
  IF thread = None \/ ~IsAlive(ts, thread)
    THEN [threads |-> Append(ts, NewThread),
          cleanup_thread |-> Some(Len(ts) + 1),
          stop_event |-> FALSE]
    ELSE [threads |-> ts, cleanup_thread |-> thread, stop_event |-> flag]

\* FileCleanup(app): init_app sweeps, then starts the thread.
InitApp ==
  /\ pc = "sweeper"
  /\ caller.pc = "new"
  /\ folder' = CleanupOldFiles(folder, clock, CLEANUP_AGE_SECONDS)
  /\ LET st == StartBackgroundCleanup(threads, cleanup_thread, stop_event)
     IN /\ threads' = st.threads
        /\ cleanup_thread' = st.cleanup_thread
        /\ stop_event' = st.stop_event
  /\ caller' = Caller("idle", 0, "start")
  /\ UNCHANGED <<request_vars, session_vars, sweeps>>

\* start_background_cleanup()
Start ==
  /\ pc = "sweeper"
  /\ caller.pc = "idle"
  /\ IsAlive(threads, cleanup_thread) \/ Len(threads) < MaxThreads
  /\ LET st == StartBackgroundCleanup(threads, cleanup_thread, stop_event)
     IN /\ threads' = st.threads
        /\ cleanup_thread' = st.cleanup_thread
        /\ stop_event' = st.stop_event
  /\ caller' = Caller("idle", 0, "start")
  /\ UNCHANGED <<request_vars, session_vars, folder, sweeps>>

\* stop_background_cleanup() up to its join.
Stop ==
  /\ pc = "sweeper"
  /\ caller.pc = "idle"
  /\ IF IsAlive(threads, cleanup_thread)
       THEN /\ stop_event' = TRUE
            /\ caller' = Caller("joining", 0, caller.last)
            /\ sweeps' = 0
       ELSE /\ caller' = Caller("idle", 0, "stop")
            /\ UNCHANGED <<stop_event, sweeps>>
  /\ UNCHANGED <<request_vars, session_vars, folder, cleanup_thread, threads>>

\* join(timeout=5) returns: the thread has ended or the timeout is over.
JoinReturn ==
  /\ pc = "sweeper"
  /\ caller.pc = "joining"
  /\ ~IsAlive(threads, cleanup_thread) \/ caller.waited >= JoinTimeout
  /\ caller' = Caller("idle", 0, "stop")
  /\ UNCHANGED <<request_vars, session_vars, folder, cleanup_thread,
                 stop_event, threads, sweeps>>

\* while not self._stop_event.is_set()
ThreadCheck(i) ==
  /\ pc = "sweeper"
  /\ threads[i].pc = "check"
  /\ threads' = [threads EXCEPT ![i] = IF stop_event
                                         THEN DeadThread
                                         ELSE Thread("waiting", 0, 0)]
  /\ UNCHANGED <<request_vars, session_vars, folder, cleanup_thread,
                 stop_event, caller, sweeps>>

\* if self._stop_event.wait(timeout=interval): break
ThreadWait(i) ==
  /\ pc = "sweeper"
  /\ threads[i].pc = "waiting"
  /\ LET w == EventWait(stop_event, threads[i].waited,
                        CLEANUP_INTERVAL_SECONDS)
     IN /\ w # "blocked"
        /\ threads' = [threads EXCEPT ![i] = IF w = "signalled"
                                               THEN DeadThread
                                               ELSE Thread("woke", 0, 0)]
  /\ UNCHANGED <<request_vars, session_vars, folder, cleanup_thread,
                 stop_event, caller, sweeps>>

\* cleanup_old_files() is entered, reads the clock and lists the folder.
ThreadSweepBegin(i) ==
  /\ pc = "sweeper"
  /\ threads[i].pc = "woke"
  /\ threads' = [threads EXCEPT
                   ![i] = Sweeping(clock, folder, DOMAIN folder, {}, TRUE)]
  /\ sweeps' = IF stop_event THEN sweeps + 1 ELSE sweeps
  /\ UNCHANGED <<request_vars, session_vars, folder, cleanup_thread,
                 stop_event, caller>>

\* Lines 46-55 for the entry n: isdir, getmtime and the age test.  An entry
\* that is gone makes getmtime raise, and the loop goes on.
ThreadCheckAge(i, n) ==
  /\ pc = "sweeper"
  /\ threads[i].pc = "sweeping"
  /\ threads[i].doomed = {}
  /\ n \in threads[i].todo
  /\ threads' =
       [threads EXCEPT
          ![i] = IF n \in DOMAIN folder
                      /\ TooOld(folder[n], threads[i].current_time,
                                CLEANUP_AGE_SECONDS)
                   THEN [@ EXCEPT !.doomed = {n}]
                   ELSE [@ EXCEPT !.todo = @ \ {n}]]
  /\ UNCHANGED <<request_vars, session_vars, folder, cleanup_thread,
                 stop_event, caller, sweeps>>

\* Line 56: os.remove of the entry whose age test passed.
ThreadRemove(i) ==
  /\ pc = "sweeper"
  /\ threads[i].pc = "sweeping"
  /\ threads[i].doomed # {}
  /\ folder' = [n \in DOMAIN folder \ threads[i].doomed |-> folder[n]]
  /\ threads' = [threads EXCEPT
                   ![i] = [@ EXCEPT !.todo = @ \ threads[i].doomed,
                                    !.doomed = {}]]
  /\ UNCHANGED <<request_vars, session_vars, cleanup_thread, stop_event,
                 caller, sweeps>>

\* cleanup_old_files() has gone through the folder and returns.
ThreadSweepEnd(i) ==
  /\ pc = "sweeper"
  /\ threads[i].pc = "sweeping"
  /\ threads[i].todo = {}
  /\ threads[i].doomed = {}
  /\ threads' = [threads EXCEPT ![i] = NewThread]
  /\ UNCHANGED <<request_vars, session_vars, folder, cleanup_thread,
                 stop_event, caller, sweeps>>

ThreadStep ==
  \E i \in DOMAIN threads :
    \/ ThreadCheck(i)
    \/ ThreadWait(i)
    \/ ThreadSweepBegin(i)
    \/ \E n \in DOMAIN StartupEntries \cup WrittenNames : ThreadCheckAge(i, n)
    \/ ThreadRemove(i)
    \/ ThreadSweepEnd(i)

\* A request writes the working file n (file.save of /upload, img.save of
\* the pipeline): the file is there with the clock's reading as its
\* modification time.  A sweep under way is no longer alone.
WriteFile(n) ==
  /\ pc = "sweeper"
  /\ caller.pc # "new"
  /\ folder' = [m \in DOMAIN folder \cup {n} |->
                  IF m = n THEN [kind |-> "file", mtime |-> clock]
                  ELSE folder[m]]
  /\ threads' = [i \in DOMAIN threads |->
                   IF threads[i].pc = "sweeping"
                     THEN [threads[i] EXCEPT !.alone = FALSE]
                     ELSE threads[i]]
  /\ UNCHANGED <<request_vars, session_vars, cleanup_thread, stop_event,
                 caller, sweeps>>

Writes == \E n \in WrittenNames : WriteFile(n)

\* d seconds pass.  Time passes while a thread waits or sweeps, not between
\* the return of its wait and its next call; no wait and no join is kept
\* past its return.
Advance(d) ==
  /\ pc = "sweeper"
  /\ caller.pc # "new"
  /\ clock + d <= StartupAge + MaxSeconds
  /\ \A i \in DOMAIN threads :
       /\ threads[i].pc \notin {"check", "woke"}
       /\ threads[i].pc = "waiting" =>
            /\ EventWait(stop_event, threads[i].waited,
                         CLEANUP_INTERVAL_SECONDS) = "blocked"
            /\ threads[i].waited + d <= CLEANUP_INTERVAL_SECONDS
  /\ caller.pc = "joining" =>
       /\ IsAlive(threads, cleanup_thread)
       /\ caller.waited + d <= JoinTimeout
  /\ clock' = clock + d
  /\ threads' = [i \in DOMAIN threads |->
                   IF threads[i].pc = "waiting"
                     THEN [threads[i] EXCEPT !.waited = @ + d]
                     ELSE threads[i]]
  /\ caller' = IF caller.pc = "joining"
                 THEN [caller EXCEPT !.waited = @ + d]
                 ELSE caller
  /\ UNCHANGED <<request_vars, issued, origin, quoted, closing, folder,
                 cleanup_thread,
                 stop_event, sweeps>>

\* Time is seen at the grain of the join timeout while a join is under way
\* and at the grain of the interval otherwise.
TimePasses ==
  \/ caller.pc = "joining" /\ Advance(JoinTimeout)
  \/ caller.pc # "joining" /\ Advance(CLEANUP_INTERVAL_SECONDS)

SweeperNext ==
  \/ InitApp
  \/ Writes
  \/ Start
  \/ Stop
  \/ JoinReturn
  \/ ThreadStep
  \/ TimePasses

\* The scheduler runs a thread that can take a step, and a join that can
\* return does.
SweeperSpec ==
  /\ SweeperInit
  /\ [][SweeperNext]_vars
  /\ WF_vars(ThreadStep)
  /\ WF_vars(JoinReturn)

(***************************************************************************)
(* What the properties speak of.                                           *)
(***************************************************************************)
\* optimize_image was called and has returned.
Returned == pc = "done" /\ "success" \in DOMAIN result
Succeeded == Returned /\ result.success

\* The request came through a route.
Routed == req.kind \in {"upload", "reoptimize"}

\* The image the pipeline decodes, and the safe name of its working files.
Source == IF req.kind = "upload" THEN req.upload.image ELSE req.stored

SafeName ==
  IF req.kind = "upload"
    THEN GetSafeFilename(req.upload.filename, req.now)
    ELSE req.safe_filename

\* The options the pipeline was handed, with the defaults of the ones left
\* out.
PassedQuality == Get(options, "quality", DEFAULT_QUALITY)
PassedResize == Get(options, "resize_percent", DEFAULT_RESIZE_PERCENT)
PassedSharpen == Get(options, "sharpen", SHARPEN_DEFAULT)
PassedStrip == Get(options, "strip_metadata", STRIP_METADATA_DEFAULT)
PassedPreset == Get(options, "preset", DEFAULT_PRESET)
PassedFormat == Get(options, "output_format", OUTPUT_FORMAT_DEFAULT)

\* The encoder was called.
EncoderCalled == pc = "done" /\ enc.codec # "none"

(***************************************************************************)
(* Properties.                                                             *)
(***************************************************************************)
\* C1: for every successful optimize_image call the reported quality_used is
\* the quality the encoder was given: the preset's quality for a JPEG or
\* WebP target, null for a PNG target.
C1_QualityUsedIsEncoderQuality ==
  Succeeded =>
    /\ result.output_format \in {"JPEG", "WEBP"} =>
         result.quality_used = enc.quality
    /\ result.output_format = "PNG" => result.quality_used = None

\* C2: for every /upload or /reoptimize request whose numeric fields parse,
\* the quality, resize percentage and sharpen amount handed to the pipeline
\* lie in [1,95], [10,200] and [0,100], and so do the values the result and
\* the response echo: quality_used when not null, sharpen_amount, and the
\* percentage the result dimensions were scaled by.
C2_ClampedFieldsInBounds ==
  (Routed /\ Returned) =>
    /\ PassedQuality \in MIN_QUALITY .. MAX_QUALITY
    /\ PassedResize \in MIN_RESIZE_PERCENT .. MAX_RESIZE_PERCENT
    /\ PassedSharpen \in MIN_SHARPEN .. MAX_SHARPEN
    /\ result.success =>
         /\ result.quality_used # None =>
              result.quality_used[1] \in MIN_QUALITY .. MAX_QUALITY
         /\ result.sharpen_amount \in MIN_SHARPEN .. MAX_SHARPEN
         /\ \E p \in MIN_RESIZE_PERCENT .. MAX_RESIZE_PERCENT :
              /\ result.resized <=> p # 100
              /\ result.width * 100 <= result.original_width * p
              /\ result.original_width * p < (result.width + 1) * 100
              /\ result.height * 100 <= result.original_height * p
              /\ result.original_height * p < (result.height + 1) * 100
         /\ response.status = 200
         /\ response.quality_used = result.quality_used
         /\ response.sharpen_amount = result.sharpen_amount

\* C2 witness: a form with every numeric field out of range was served and
\* a quality was reported.
C2_Witness ==
  /\ Routed /\ Succeeded
  /\ "quality" \in DOMAIN req.form
  /\ "resize_percent" \in DOMAIN req.form
  /\ "sharpen" \in DOMAIN req.form
  /\ req.form.quality.value > MAX_QUALITY
  /\ req.form.resize_percent.value > MAX_RESIZE_PERCENT
  /\ req.form.sharpen.value < MIN_SHARPEN
  /\ result.quality_used = Some(MAX_QUALITY)
  /\ result.sharpen_amount = MIN_SHARPEN
  /\ result.width = 2 * result.original_width

\* C3: for every successful call the result width and height are the floor
\* of the original width and height times resize_percent / 100; the image
\* is resized, and resized is reported, exactly when resize_percent is not
\* 100, and at 100 the result dimensions are the original ones.
C3_ResultDimensionsAreFloorScaled ==
  Succeeded =>
    /\ result.width * 100 <= result.original_width * PassedResize
    /\ result.original_width * PassedResize < (result.width + 1) * 100
    /\ result.height * 100 <= result.original_height * PassedResize
    /\ result.original_height * PassedResize < (result.height + 1) * 100
    /\ result.resized <=> PassedResize # 100
    /\ enc.resized <=> PassedResize # 100
    /\ enc.width = result.width /\ enc.height = result.height
    /\ PassedResize = 100 =>
         /\ result.width = result.original_width
         /\ result.height = result.original_height

\* C3 witness: 5 x 7 at 50 percent came out 2 x 3.
C3_Witness ==
  /\ Succeeded
  /\ PassedResize = 50
  /\ result.original_width = 5 /\ result.original_height = 7
  /\ result.width = 2 /\ result.height = 3
  /\ result.resized

\* C4 as claimed: the resized output keeps the source aspect ratio exactly,
\* result width * original height = result height * original width.
C4_AspectRatioExact ==
  Succeeded =>
    result.width * result.original_height
      = result.height * result.original_width

\* C4 amended: the aspect ratio is kept up to the truncation of each axis:
\* width * original height and height * original width differ by less than
\* one original dimension, and are equal when both original dimensions
\* times resize_percent are multiples of 100.
C4_AspectRatioUpToTruncation ==
  Succeeded =>
    LET d == result.width * result.original_height
               - result.height * result.original_width
    IN /\ -result.original_height < d
       /\ d < result.original_width
       /\ ((result.original_width * PassedResize) % 100 = 0
             /\ (result.original_height * PassedResize) % 100 = 0)
            => d = 0

\* C4 witness: 3 x 2 at 50 percent came out 1 x 1.
C4_Witness ==
  /\ Succeeded
  /\ PassedResize = 50
  /\ result.original_width = 3 /\ result.original_height = 2
  /\ result.width = 1 /\ result.height = 1

\* C5: for every successful call with output_format 'same' the result has
\* format_converted false, its output_format is the format the decoder
\* detected, and the file is written at the destination path as given.
C5_SameKeepsFormatAndPath ==
  (Succeeded /\ PassedFormat = "same") =>
    /\ result.format_converted = FALSE
    /\ result.output_format = Source.format
    /\ enc.path = WorkingPath("optimized", SafeName)
    /\ WorkingPath("optimized", SafeName) \in DOMAIN files

\* C5 witness: a JPEG uploaded under a .png name was optimized as 'same'.
C5_Witness ==
  /\ Succeeded
  /\ PassedFormat = "same"
  /\ Source.format = "JPEG"
  /\ SplitExt(SafeName)[2] = ".png"
  /\ SplitExt(enc.path)[2] = ".png"
  /\ result.output_format = "JPEG"

\* C6: whenever the JPEG encoder is reached, by the JPEG target or by the
\* fallback for an unrecognised target format, with an image whose mode
\* before encoding is RGBA, LA or P, the image was first composited onto
\* the white background and is encoded in mode RGB.
C6_JpegEncodeFlattensAlpha ==
  (EncoderCalled /\ enc.codec = "JPEG" /\ Source.mode \in AlphaModes) =>
    /\ enc.flattened
    /\ enc.mode = "RGB"

\* C7: when an RGBA source is optimized with output_format 'jpeg', the
\* result reports format_converted, the output file name ends in .jpeg, and
\* the mode reported is the RGB mode of the image produced.
C7_RgbaToJpegReportsRgb ==
  (Succeeded /\ Source.mode = "RGBA" /\ PassedFormat = "jpeg") =>
    /\ result.format_converted
    /\ SplitExt(enc.path)[2] = ".jpeg"
    /\ enc.path \in DOMAIN files
    /\ result.mode = enc.mode
    /\ result.mode = "RGB"

\* C8: the encoder is given the EXIF block captured at decode if and only
\* if strip_metadata is false, the source carried a block and the target
\* format equals the source format; otherwise it is given no metadata.
C8_MetadataPassedIffKeptAndSameFormat ==
  EncoderCalled =>
    /\ enc.has_exif <=>
         /\ ~PassedStrip
         /\ Source.exif # "none"
         /\ (PassedFormat = "same" \/ Upper(PassedFormat) = Source.format)
    /\ enc.has_exif => enc.exif = Source.exif
    /\ ~enc.has_exif => enc.exif = "none"

\* C8 witness: a JPEG with an EXIF block, optimized to 'jpeg' with metadata
\* kept, had its block passed to the encoder.
C8_Witness ==
  /\ EncoderCalled
  /\ Source.format = "JPEG"
  /\ PassedFormat = "jpeg"
  /\ ~PassedStrip
  /\ enc.has_exif
  /\ enc.exif = "plain"

\* C9: for every successful call reduction_bytes is original_size minus
\* optimized_size, negative when the output grew; reduction_percent is
\* reduction_bytes / original_size * 100 rounded to two decimals (a nearest
\* hundredth) when original_size is not 0, and 0 when it is 0.
C9_ReductionArithmetic ==
  Succeeded =>
    /\ result.original_size = Source.size
    /\ result.optimized_size = files[enc.path].size
    /\ result.reduction_bytes = Source.size - files[enc.path].size
    /\ Source.size # 0 =>
         LET err == result.reduction_percent_x100 * Source.size
                      - (Source.size - files[enc.path].size) * 10000
         IN /\ 2 * err <= Source.size
            /\ -2 * err <= Source.size
    /\ Source.size = 0 => result.reduction_percent_x100 = 0

\* C9 witness: 3 bytes became 7, reported as -4 bytes and -133.33 percent.
C9_Witness ==
  /\ Succeeded
  /\ result.original_size = 3
  /\ result.optimized_size = 7
  /\ result.reduction_bytes = -4
  /\ result.reduction_percent_x100 = -13333

\* The library or file-system call req.env.fault names was made by this call
\* and raised.
FaultRaised ==
  \/ req.env.fault \in {"stat_input", "decode", "encode", "stat_output"}
  \/ req.env.fault = "resize" /\ PassedResize # 100
  \/ req.env.fault = "filter" /\ PassedSharpen > 0

\* C10: optimize_image returns a result for every call; a call in which a
\* decode, resize, filter, encode or file-stat step raised returns success
\* false with an error message and nothing else; success is returned only
\* when the destination file was written and its size read.
C10_FailuresAreTaggedResults ==
  /\ (pc = "done" /\ req.kind = "call") => Returned
  /\ (pc = "done" /\ Routed /\ response.status \in {200, 500}) => Returned
  /\ Returned =>
       /\ result.success \in BOOLEAN
       /\ FaultRaised => ~result.success
       /\ ~result.success => DOMAIN result = {"success", "error"}
       /\ result.success =>
            /\ EncoderCalled
            /\ enc.path \in DOMAIN files
            /\ files[enc.path].format = enc.codec
            /\ result.optimized_size = files[enc.path].size

\* C10 witness: the stat of the written destination raised, and the call
\* returned the failure result.
C10_Witness ==
  /\ Returned
  /\ req.env.fault = "stat_output"
  /\ EncoderCalled
  /\ result = [success |-> FALSE, error |-> "getsize"]

\* A step completes a sweep no write came across: the sweep of start-up,
\* or a sweep of the thread that was alone to its end.  SweepTime is the
\* time.time() the sweep read on entry, SweepFound the folder it began on.
SweepCompletes ==
  \/ caller.pc = "new" /\ caller'.pc = "idle"
  \/ \E i \in DOMAIN threads :
       /\ threads[i].pc = "sweeping"
       /\ threads[i].alone
       /\ threads'[i].pc # "sweeping"

Sweeper == CHOOSE j \in DOMAIN threads : threads[j].pc = "sweeping"

SweepTime ==
  IF caller.pc = "new" THEN clock ELSE threads[Sweeper].current_time

SweepFound ==
  IF caller.pc = "new" THEN folder ELSE threads[Sweeper].listed

\* C11: one sweep, with no writer at work and no removal failing, removes
\* exactly the regular files of the folder whose age, the time the sweep
\* read on entry minus the modification time, is greater than the max age;
\* files of that age or less and all directories stay as they were.
C11_SweepRemovesExactlyOlderFiles ==
  [][SweepCompletes =>
       /\ DOMAIN folder' \subseteq DOMAIN SweepFound
       /\ \A n \in DOMAIN SweepFound :
            /\ n \notin DOMAIN folder' <=>
                 /\ SweepFound[n].kind = "file"
                 /\ SweepTime - SweepFound[n].mtime > CLEANUP_AGE_SECONDS
            /\ n \in DOMAIN folder' => folder'[n] = SweepFound[n]]_vars

\* C11 witness: the sweep of start-up removed the file aged 7200 seconds
\* and kept the file aged 100 seconds, the file aged exactly the max age
\* and the directory.
C11_Witness ==
  /\ pc = "sweeper"
  /\ caller.pc = "idle"
  /\ clock = StartupAge
  /\ "optimized_old.jpg" \notin DOMAIN folder
  /\ {"optimized_fresh.webp", "optimized_edge.png", "thumbs"}
       \subseteq DOMAIN folder

\* C12: once a download of an optimized file has completed, neither that
\* file nor the original_ file of the same upload is left in the working
\* directory, whatever output_format the optimization used.
C12_DownloadLeavesNoWorkingFile ==
  [][\A c \in BagToSet(closing) :
       closing' = closing (-) SetToBag({c}) =>
         /\ \A i \in DOMAIN c.paths : c.paths[i] \notin DOMAIN files'
         /\ WorkingPath("original", c.origin) \notin DOMAIN files']_vars

\* C13: a /reoptimize that carries the safe_filename the latest answer of
\* /upload or of /reoptimize returned, with no download and no cleanup
\* since the upload, finds the stored original: it does not answer 404.
C13_ReoptimizeFindsOriginal ==
  (pc = "session" /\ req.kind = "reoptimize" /\ quoted.intact) =>
    response.status # 404

\* C14: when the optimization of an /upload fails, after the 500 response
\* no original_ file and no optimized_ file of the request, under whatever
\* extension the pipeline wrote it, is left in the working directory.
C14_FailedUploadLeavesNoWorkingFile ==
  (pc = "done" /\ req.kind = "upload" /\ response.status = 500) =>
    \A p \in DOMAIN files :
      SplitExt(p)[1] \notin {WorkingPath("original", SplitExt(SafeName)[1]),
                             WorkingPath("optimized", SplitExt(SafeName)[1])}

\* The thread the stop signal was set for has ended.
SweeperEnded == ~IsAlive(threads, cleanup_thread)

\* A thread inside its interval wait when the stop signal is set leaves the
\* wait for its end before any time passes.
WaitCutShort ==
  \A i \in DOMAIN threads :
    (stop_event /\ threads[i].pc = "waiting") =>
      \/ threads'[i].pc = "dead"
      \/ threads'[i] = threads[i] /\ clock' = clock

\* C15 as claimed: once stop_background_cleanup has set the stop signal the
\* interval wait returns without waiting the interval out, the thread
\* begins no sweep any more and ends, and stop_background_cleanup returns
\* within the join timeout.
C15_StopEndsSweeperWithNoFurtherSweep ==
  /\ [](stop_event => sweeps = 0)
  /\ [][WaitCutShort]_vars
  /\ [](caller.pc = "joining" => caller.waited <= JoinTimeout)
  /\ (stop_event ~> SweeperEnded)
  /\ (caller.pc = "joining" ~> caller.pc = "idle")

\* C15 amended: once the stop signal is set the interval wait returns
\* without waiting the interval out, the thread begins at most one sweep
\* more (the one whose wait had timed out before the signal was set, or
\* none when a sweep was under way) and ends, and stop_background_cleanup
\* returns within the join timeout.
C15_StopEndsSweeperAfterAtMostOneSweep ==
  /\ [](stop_event => sweeps <= 1)
  /\ [][WaitCutShort]_vars
  /\ [](caller.pc = "joining" => caller.waited <= JoinTimeout)
  /\ (stop_event ~> SweeperEnded)
  /\ (caller.pc = "joining" ~> caller.pc = "idle")

\* C15 witness: the signal was set while the thread was about to sweep; the
\* thread made that sweep and ended, and stop has returned.
C15_Witness ==
  /\ pc = "sweeper"
  /\ stop_event
  /\ sweeps = 1
  /\ SweeperEnded
  /\ caller = Caller("idle", 0, "stop")

\* The options the pipeline was handed: auto_orient.
PassedOrient == Get(options, "auto_orient", AUTO_ORIENT_DEFAULT)

\* C16: the original_width and original_height of the result are the
\* dimensions of the source as decoded, before the auto-orient transpose,
\* also for a source whose orientation swaps width and height.
C16_OriginalDimensionsAreDecodedOnes ==
  Succeeded =>
    /\ result.original_width = Source.width
    /\ result.original_height = Source.height

\* C17: any two upload requests are given distinct safe filenames, also two
\* that submit the same client filename at the same reading of the clock.
\* issued holds, upload by upload, what get_safe_filename returned:
\* secure_filename's stem, "_", the millisecond read and the extension.
C17_SafeFilenamesAreDistinct ==
  \A i, j \in DOMAIN issued : i # j => issued[i] # issued[j]

\* C18: format_converted is true only when the target format differs from
\* the detected source format; an explicit output_format that is the
\* source's own format reports format_converted false and leaves the safe
\* filename of the response as it was.
C18_FormatConvertedOnlyOnChange ==
  Succeeded =>
    /\ result.format_converted => result.output_format # result.format
    /\ (Routed /\ result.output_format = result.format) =>
         /\ ~result.format_converted
         /\ response.safe_filename = SafeName

\* C19: when auto_orient transposes a source whose orientation tag is not
\* the identity and the metadata is kept, the metadata handed to the encoder
\* and written to the output no longer carries that orientation tag.
C19_KeptMetadataHasNoStaleOrientation ==
  (EncoderCalled /\ PassedOrient /\ Source.exif = "rot90" /\ enc.has_exif) =>
    /\ enc.exif # "rot90"
    /\ enc.path \in DOMAIN files => files[enc.path].exif # "rot90"

\* The sweeper threads alive.
AliveThreads == {i \in DOMAIN threads : threads[i].pc # "dead"}

\* C20: whenever start_background_cleanup has returned and
\* stop_background_cleanup has not been called since, a sweeper thread is
\* running with the stop signal clear, also when start was called after a
\* stop whose join timed out; and never two sweeper threads are alive.
C20_StartedSweeperIsRunning ==
  /\ (caller.pc = "idle" /\ caller.last = "start") =>
       /\ IsAlive(threads, cleanup_thread)
       /\ ~stop_event
  /\ Cardinality(AliveThreads) <= 1

\* C21: in every interleaving of a sweep with writes of requests into the
\* working directory, the sweep removes no file whose content was written
\* less than the max age ago: a file written again between the sweep's age
\* test and its os.remove, or after the sweep read the clock, is not
\* removed by that sweep.  (Only sweeps remove entries of the folder.)
C21_SweepRemovesNoFreshFile ==
  [][\A n \in DOMAIN folder :
       n \notin DOMAIN folder' =>
         ~(clock - folder[n].mtime < CLEANUP_AGE_SECONDS)]_vars

====
